---- MODULE Spec2Model ----
(***************************************************************************)
(* Model of the WAV pipeline of _exercice_version_prof.py: channel         *)
(* interleaving (merge_channels / separate_channels), the 16-bit sample    *)
(* codec (convert_to_bytes / convert_to_samples) and the 44-byte header    *)
(* codec (create_headers / encode_wave_data / decode_wave_data).           *)
(*                                                                         *)
(* A sample (a Python float) is an exact fraction [num, den], den > 0.     *)
(* A byte string is a sequence of integers in 0..255.                      *)
(* The functions are pure; the state records the calls of the current      *)
(* pipeline (trace), their arguments and what they returned or raised.     *)
(***************************************************************************)
EXTENDS Integers, Sequences, FiniteSets, TLC

VARIABLES
    byteorder,      \* sys.byteorder of the host: native "h" packing follows it
    trace,          \* the functions called so far in the current pipeline
    channels,       \* argument of merge_channels
    merged,         \* result of merge_channels / samples argument of separate_channels
    num_channels,   \* num_channels argument of separate_channels
    separated,      \* result of separate_channels
    samples,        \* argument of convert_to_bytes / encode_wave_data
    num_samples,    \* argument of create_headers
    headers,        \* WaveHeader returned by create_headers / decode_wave_data
    headers_bytes,  \* first member of the pair returned by encode_wave_data
    data_bytes,     \* result of convert_to_bytes / argument of convert_to_samples
    file_bytes,     \* argument of decode_wave_data
    out_samples,    \* result of convert_to_samples / decode_wave_data
    raised          \* "none", or the exception the last call raised (nothing returned)

vars == <<byteorder, trace, channels, merged, num_channels, separated, samples,
          num_samples, headers, headers_bytes, data_bytes, file_bytes,
          out_samples, raised>>

----------------------------------------------------------------------------
(* Bounds of the model *)

MaxChannels == 3
MaxChanLen == 2
MaxBuffer == 5
MaxLen == 2
MaxBytes == 3
MaxNumSamples == 6
SampleDen == 2
Over == 1

----------------------------------------------------------------------------
(* Module constants of the program *)

SAMPLING_FREQ == 44100
SAMPLE_BITS == 16
SAMPLE_WIDTH == SAMPLE_BITS \div 8
MAX_SAMPLE_VALUE == 2^(SAMPLE_BITS - 1) - 1

RIFF_HEADER_STRUCT == <<"4s", "I", "4s">>
FORMAT_HEADER_STRUCT == <<"4s", "I", "H", "H", "I", "I", "H", "H">>
DATA_HEADER_STRUCT == <<"4s", "I">>
\* "<": little-endian, standard sizes, no padding
WAVE_FILE_HEADERS_STRUCT == RIFF_HEADER_STRUCT \o FORMAT_HEADER_STRUCT \o DATA_HEADER_STRUCT

\* the field names of the namedtuple, in order
WaveHeaderFields ==
    <<"riff", "file_size", "wave", "fmt", "fmt_size", "wav_type", "num_channels",
      "sampling_freq", "bytes_per_second", "block_align", "sample_bits", "data",
      "data_size">>

\* WaveHeader(*t): the namedtuple built from 13 positional values
WaveHeader(t) ==
    [f \in {WaveHeaderFields[i] : i \in 1..Len(WaveHeaderFields)} |->
        t[CHOOSE i \in 1..Len(WaveHeaderFields) : WaveHeaderFields[i] = f]]

\* *headers: the namedtuple as a positional tuple
HeaderTuple(h) == [i \in 1..Len(WaveHeaderFields) |-> h[WaveHeaderFields[i]]]

\* the ASCII literals b"RIFF", b"WAVE", b"fmt ", b"data"
RIFF == <<82, 73, 70, 70>>
WAVE == <<87, 65, 86, 69>>
FMT == <<102, 109, 116, 32>>
DATA == <<100, 97, 116, 97>>

----------------------------------------------------------------------------
(* The struct module, as far as the program uses it *)

\* size in bytes of one format code (standard sizes; native "h" is 2 as well)
FieldSize(code) ==
    CASE code = "4s" -> 4
      [] code = "I" -> 4
      [] code = "H" -> 2
      [] code = "h" -> 2

RECURSIVE calcsize(_)
calcsize(fmt) ==
    IF fmt = <<>> THEN 0 ELSE FieldSize(Head(fmt)) + calcsize(Tail(fmt))

\* n-byte little-endian encoding of an unsigned integer
LittleEndian(v, n) == [i \in 1..n |-> (v \div (256^(i - 1))) % 256]

RECURSIVE FromLittleEndian(_)
FromLittleEndian(b) ==
    IF b = <<>> THEN 0 ELSE Head(b) + 256 * FromLittleEndian(Tail(b))

Reverse(s) == [i \in 1..Len(s) |-> s[Len(s) + 1 - i]]

\* struct.pack raises struct.error on an integer its code cannot hold
FieldFits(code, v) ==
    IF code = "4s" THEN Len(v) = 4
    ELSE v >= 0 /\ v \div (256^(FieldSize(code) - 1)) < 256

\* PackField that writes the 2-byte "H" fields high byte first
PackFieldBigEndianShorts(code, v) ==
    IF code = "4s" THEN v
    ELSE IF code = "H" THEN Reverse(LittleEndian(v, 2))
    ELSE LittleEndian(v, FieldSize(code))

PackField(code, v) ==
    IF code = "4s" THEN v ELSE LittleEndian(v, FieldSize(code))

UnpackField(code, b) ==
    IF code = "4s" THEN b ELSE FromLittleEndian(b)

\* struct.pack("<...", *values), for values that fit
RECURSIVE pack(_, _)
pack(fmt, values) ==
    IF fmt = <<>> THEN <<>>
    ELSE PackField(Head(fmt), Head(values)) \o pack(Tail(fmt), Tail(values))

PackFits(fmt, values) == \A i \in 1..Len(fmt) : FieldFits(fmt[i], values[i])

\* struct.unpack_from("<...", buffer), for a buffer of at least calcsize bytes:
\* field i is read at the offset of the fields before it
unpack_from(fmt, buffer) ==
    [i \in 1..Len(fmt) |->
        LET offset == calcsize(SubSeq(fmt, 1, i - 1))
        IN UnpackField(fmt[i], SubSeq(buffer, offset + 1, offset + FieldSize(fmt[i])))]

\* native "h": signed 16 bits in the byte order of the host
ShortFits(v) == -32768 <= v /\ v <= 32767

pack_h(v, order) ==
    LET le == LittleEndian(v % 65536, 2)
    IN IF order = "little" THEN le ELSE Reverse(le)

\* unpack_h with "H" in place of "h": the chunk read as unsigned
unpack_H(b, order) ==
    FromLittleEndian(IF order = "little" THEN b ELSE Reverse(b))

unpack_h(b, order) ==
    LET u == FromLittleEndian(IF order = "little" THEN b ELSE Reverse(b))
    IN IF u >= 32768 THEN u - 65536 ELSE u

----------------------------------------------------------------------------
(* The functions of the program *)

Min(S) == CHOOSE x \in S : \A y \in S : x <= y

\* zip(*channels): one tuple per index, up to the shortest argument; no
\* argument at all gives no tuple
zip(chans) ==
    IF chans = <<>> THEN <<>>
    ELSE [t \in 1..Min({Len(chans[c]) : c \in 1..Len(chans)}) |->
            [c \in 1..Len(chans) |-> chans[c][t]]]

\* [sample for samples in tuples for sample in samples]
RECURSIVE Flatten(_)
Flatten(tuples) ==
    IF tuples = <<>> THEN <<>> ELSE Head(tuples) \o Flatten(Tail(tuples))

\* merge_channels without zip: the channels one after the other
merge_concatenated(chans) == Flatten(chans)

merge_channels(chans) == Flatten(zip(chans))

\* s[start::step] with 0-based start and step >= 1
RECURSIVE Slice(_, _, _)
Slice(s, start, step) ==
    IF start >= Len(s) THEN <<>>
    ELSE <<s[start + 1]>> \o Slice(s, start + step, step)

\* separate_channels by contiguous blocks: s[c*m:(c+1)*m], m = len(s) // n
separate_blocks(s, n) ==
    [c \in 1..n |-> SubSeq(s, (c - 1) * (Len(s) \div n) + 1, c * (Len(s) \div n))]

\* separate_channels on whole frames only: the trailing len(s) % n samples dropped
separate_whole_frames(s, n) ==
    [c \in 1..n |-> Slice(SubSeq(s, 1, n * (Len(s) \div n)), c - 1, n)]

separate_channels(s, n) == [c \in 1..n |-> Slice(s, c - 1, n)]

\* create_headers with the sample count as data_size (SAMPLE_WIDTH forgotten)
create_headers_in_samples(n) ==
    [riff |-> RIFF,
     file_size |-> calcsize(WAVE_FILE_HEADERS_STRUCT) - 8 + n,
     wave |-> WAVE,
     fmt |-> FMT,
     fmt_size |-> calcsize(FORMAT_HEADER_STRUCT) - 8,
     wav_type |-> 1,
     num_channels |-> 2,
     sampling_freq |-> SAMPLING_FREQ,
     bytes_per_second |-> SAMPLING_FREQ * SAMPLE_WIDTH,
     block_align |-> SAMPLE_WIDTH,
     sample_bits |-> SAMPLE_BITS,
     data |-> DATA,
     data_size |-> n]

create_headers(n) ==
    LET headers_size == calcsize(WAVE_FILE_HEADERS_STRUCT)
        data_size == n * SAMPLE_WIDTH
        riff_file_size == calcsize(WAVE_FILE_HEADERS_STRUCT) - 8 + data_size
    IN [riff |-> RIFF,
        file_size |-> riff_file_size,
        wave |-> WAVE,
        fmt |-> FMT,
        fmt_size |-> calcsize(FORMAT_HEADER_STRUCT) - 8,
        wav_type |-> 1,
        num_channels |-> 2,
        sampling_freq |-> SAMPLING_FREQ,
        bytes_per_second |-> SAMPLING_FREQ * SAMPLE_WIDTH,
        block_align |-> SAMPLE_WIDTH,
        sample_bits |-> SAMPLE_BITS,
        data |-> DATA,
        data_size |-> data_size]

\* int(x) of the quotient a / b, b > 0: truncation toward zero
TruncDiv(a, b) == IF a >= 0 THEN a \div b ELSE -((-a) \div b)

\* int(sample * MAX_SAMPLE_VALUE)
ScaleSample(sample) == TruncDiv(sample.num * MAX_SAMPLE_VALUE, sample.den)

\* a packer that wraps an integer that is no short instead of raising
ConvertToBytesWraps(s) == FALSE

\* packer.pack(*ints) raises struct.error when an integer is no short
ConvertToBytesRaises(s) == \E i \in 1..Len(s) : ~ShortFits(ScaleSample(s[i]))

RECURSIVE PackShorts(_, _)
PackShorts(ints, order) ==
    IF ints = <<>> THEN <<>>
    ELSE pack_h(Head(ints), order) \o PackShorts(Tail(ints), order)

convert_to_bytes(s, order) ==
    PackShorts([i \in 1..Len(s) |-> ScaleSample(s[i])], order)

\* unpack_from in place of unpack: the bytes after the last whole chunk ignored
ConvertToSamplesLenient(b) == FALSE

\* unpacker.unpack(sample_bytes) raises struct.error unless the buffer is
\* exactly (len // SAMPLE_WIDTH) * 2 bytes long
ConvertToSamplesRaises(b) == Len(b) # (Len(b) \div SAMPLE_WIDTH) * FieldSize("h")

convert_to_samples(b, order) ==
    LET int_samples ==
            [i \in 1..(Len(b) \div SAMPLE_WIDTH) |->
                unpack_h(SubSeq(b, 2 * i - 1, 2 * i), order)]
    IN [i \in 1..Len(int_samples) |->
            [num |-> int_samples[i], den |-> MAX_SAMPLE_VALUE]]

\* struct.unpack_from raises struct.error on a buffer shorter than the format
DecodeHeaderRaises(b) == Len(b) < calcsize(WAVE_FILE_HEADERS_STRUCT)

DataStart == calcsize(WAVE_FILE_HEADERS_STRUCT)

\* file_bytes[data_start:]
DataPart(b) == SubSeq(b, DataStart + 1, Len(b))

DecodeWaveDataRaises(b) ==
    DecodeHeaderRaises(b) \/ ConvertToSamplesRaises(DataPart(b))

----------------------------------------------------------------------------
(* Inputs *)

SeqsUpTo(S, n) == UNION {[1..k -> S] : k \in 0..n}

\* floats k / SampleDen in [-(1 + Over/SampleDen), 1 + Over/SampleDen], and
\* -32768/32767, the lowest value convert_to_samples can return
Samples ==
    {[num |-> k, den |-> SampleDen] : k \in -(SampleDen + Over)..(SampleDen + Over)}
    \cup {[num |-> -(MAX_SAMPLE_VALUE + 1), den |-> MAX_SAMPLE_VALUE]}

SampleLists == SeqsUpTo(Samples, MaxLen)

\* the samples 0.0 and 1.0 for the channels (merging never looks at a value)
ChannelSamples == {[num |-> 0, den |-> 1], [num |-> 1, den |-> 1]}

ChannelSets == SeqsUpTo(SeqsUpTo(ChannelSamples, MaxChanLen), MaxChannels)

Buffers == SeqsUpTo(ChannelSamples, MaxBuffer)

ByteValues == {0, 1, 127, 128, 255}

ByteStrings == SeqsUpTo(ByteValues, MaxBytes)

\* what a caller may read back from the file it wrote: the image, a prefix of
\* it, or the image with one more byte
FileImages(image) ==
    {SubSeq(image \o <<0>>, 1, k) : k \in 0..(Len(image) + 1)}

----------------------------------------------------------------------------
(* State machine: one action per call; a pipeline starts from fresh values *)

NoHeader == <<>>

Init ==
    /\ byteorder \in {"little", "big"}
    /\ trace = <<>>
    /\ channels = <<>>
    /\ merged = <<>>
    /\ num_channels = 0
    /\ separated = <<>>
    /\ samples = <<>>
    /\ num_samples = 0
    /\ headers = NoHeader
    /\ headers_bytes = <<>>
    /\ data_bytes = <<>>
    /\ file_bytes = <<>>
    /\ out_samples = <<>>
    /\ raised = "none"

ClearChannels ==
    /\ channels' = <<>>
    /\ merged' = <<>>
    /\ num_channels' = 0
    /\ separated' = <<>>

ClearCodec ==
    /\ samples' = <<>>
    /\ num_samples' = 0
    /\ headers' = NoHeader
    /\ headers_bytes' = <<>>
    /\ data_bytes' = <<>>
    /\ file_bytes' = <<>>
    /\ out_samples' = <<>>

\* merged = merge_channels(chans)
MergeChannels(chans) ==
    /\ trace = <<>>
    /\ trace' = <<"merge_channels">>
    /\ channels' = chans
    /\ merged' = merge_channels(chans)
    /\ num_channels' = 0
    /\ separated' = <<>>
    /\ raised' = "none"
    /\ ClearCodec
    /\ UNCHANGED byteorder

\* separate_channels(merged, n) on the buffer merge_channels just returned
SeparateMerged(n) ==
    /\ trace = <<"merge_channels">>
    /\ trace' = Append(trace, "separate_channels")
    /\ num_channels' = n
    /\ separated' = separate_channels(merged, n)
    /\ raised' = "none"
    /\ UNCHANGED <<byteorder, channels, merged, samples, num_samples, headers,
                   headers_bytes, data_bytes, file_bytes, out_samples>>

\* separate_channels(buffer, n) on a buffer of the caller
SeparateChannels(buffer, n) ==
    /\ trace = <<>>
    /\ trace' = <<"separate_channels">>
    /\ channels' = <<>>
    /\ merged' = buffer
    /\ num_channels' = n
    /\ separated' = separate_channels(buffer, n)
    /\ raised' = "none"
    /\ ClearCodec
    /\ UNCHANGED byteorder

\* headers = create_headers(n)
CreateHeaders(n) ==
    /\ trace = <<>>
    /\ trace' = <<"create_headers">>
    /\ num_samples' = n
    /\ headers' = create_headers(n)
    /\ samples' = <<>>
    /\ headers_bytes' = <<>>
    /\ data_bytes' = <<>>
    /\ file_bytes' = <<>>
    /\ out_samples' = <<>>
    /\ raised' = "none"
    /\ ClearChannels
    /\ UNCHANGED byteorder

\* data_bytes = convert_to_bytes(s)
ConvertToBytes(s) ==
    /\ trace = <<>>
    /\ trace' = <<"convert_to_bytes">>
    /\ samples' = s
    /\ IF ConvertToBytesRaises(s)
       THEN raised' = "struct.error" /\ data_bytes' = <<>>
       ELSE raised' = "none" /\ data_bytes' = convert_to_bytes(s, byteorder)
    /\ num_samples' = 0
    /\ headers' = NoHeader
    /\ headers_bytes' = <<>>
    /\ file_bytes' = <<>>
    /\ out_samples' = <<>>
    /\ ClearChannels
    /\ UNCHANGED byteorder

\* convert_to_samples(data_bytes) on the payload convert_to_bytes just returned
ConvertBack ==
    /\ trace = <<"convert_to_bytes">>
    /\ raised = "none"
    /\ trace' = Append(trace, "convert_to_samples")
    /\ IF ConvertToSamplesRaises(data_bytes)
       THEN raised' = "struct.error" /\ out_samples' = <<>>
       ELSE raised' = "none" /\ out_samples' = convert_to_samples(data_bytes, byteorder)
    /\ UNCHANGED <<byteorder, channels, merged, num_channels, separated, samples,
                   num_samples, headers, headers_bytes, data_bytes, file_bytes>>

\* out_samples = convert_to_samples(b) on a payload of the caller
ConvertToSamples(b) ==
    /\ trace = <<>>
    /\ trace' = <<"convert_to_samples">>
    /\ data_bytes' = b
    /\ IF ConvertToSamplesRaises(b)
       THEN raised' = "struct.error" /\ out_samples' = <<>>
       ELSE raised' = "none" /\ out_samples' = convert_to_samples(b, byteorder)
    /\ samples' = <<>>
    /\ num_samples' = 0
    /\ headers' = NoHeader
    /\ headers_bytes' = <<>>
    /\ file_bytes' = <<>>
    /\ ClearChannels
    /\ UNCHANGED byteorder

\* headers_bytes, data_bytes = encode_wave_data(s)
EncodeWaveData(s) ==
    LET hdr == create_headers(Len(s))
        fails == ~PackFits(WAVE_FILE_HEADERS_STRUCT, HeaderTuple(hdr))
                    \/ ConvertToBytesRaises(s)
    IN /\ trace = <<>>
       /\ trace' = <<"encode_wave_data">>
       /\ samples' = s
       /\ IF fails
          THEN raised' = "struct.error" /\ headers_bytes' = <<>> /\ data_bytes' = <<>>
          ELSE /\ raised' = "none"
               /\ headers_bytes' = pack(WAVE_FILE_HEADERS_STRUCT, HeaderTuple(hdr))
               /\ data_bytes' = convert_to_bytes(s, byteorder)
       /\ num_samples' = 0
       /\ headers' = NoHeader
       /\ file_bytes' = <<>>
       /\ out_samples' = <<>>
       /\ ClearChannels
       /\ UNCHANGED byteorder

\* headers, out_samples = decode_wave_data(fb), fb read back from the file
\* that holds headers_bytes followed by data_bytes
DecodeWaveData(fb) ==
    /\ trace = <<"encode_wave_data">>
    /\ raised = "none"
    /\ trace' = Append(trace, "decode_wave_data")
    /\ file_bytes' = fb
    /\ IF DecodeWaveDataRaises(fb)
       THEN raised' = "struct.error" /\ headers' = NoHeader /\ out_samples' = <<>>
       ELSE /\ raised' = "none"
            /\ headers' = WaveHeader(unpack_from(WAVE_FILE_HEADERS_STRUCT, fb))
            /\ out_samples' = convert_to_samples(DataPart(fb), byteorder)
    /\ UNCHANGED <<byteorder, channels, merged, num_channels, separated, samples,
                   num_samples, headers_bytes, data_bytes>>

\* the caller is done with the values of a pipeline (the end of a with block
\* of main): the next calls start from fresh arguments
Done ==
    /\ trace # <<>>
    /\ trace' = <<>>
    /\ raised' = "none"
    /\ ClearChannels
    /\ ClearCodec
    /\ UNCHANGED byteorder

\* no call of the current pipeline yet: the caller picks fresh arguments
Fresh == trace = <<>>

Next ==
    \/ Fresh /\ \E chans \in ChannelSets : MergeChannels(chans)
    \/ \E n \in 1..MaxChannels : SeparateMerged(n)
    \/ Fresh /\ \E buffer \in Buffers, n \in 1..MaxChannels : SeparateChannels(buffer, n)
    \/ Fresh /\ \E n \in 0..MaxNumSamples : CreateHeaders(n)
    \/ Fresh /\ \E s \in SampleLists : ConvertToBytes(s)
    \/ ConvertBack
    \/ Fresh /\ \E b \in ByteStrings : ConvertToSamples(b)
    \/ Fresh /\ \E s \in SampleLists : EncodeWaveData(s)
    \/ \E fb \in FileImages(headers_bytes \o data_bytes) : DecodeWaveData(fb)
    \/ Done

Spec == Init /\ [][Next]_vars

----------------------------------------------------------------------------
(* Properties *)

Abs(x) == IF x >= 0 THEN x ELSE -x

\* the sample lies in [-1, 1]
InUnit(s) == -s.den <= s.num /\ s.num <= s.den

AllInUnit(s) == \A i \in 1..Len(s) : InUnit(s[i])

\* |a - b| < 1 / MAX_SAMPLE_VALUE, on exact fractions
WithinOneStep(a, b) ==
    Abs(a.num * b.den - b.num * a.den) <= (a.den * b.den - 1) \div MAX_SAMPLE_VALUE

\* the k-th 2-byte chunk of a payload
Chunk(b, k) == SubSeq(b, 2 * k - 1, 2 * k)

\* v reduced modulo 2^16 into -32768..32767
Wrap16(v) == ((v + 32768) % 65536) - 32768

EqualLengths(chans) ==
    \A c, d \in 1..Len(chans) : Len(chans[c]) = Len(chans[d])

\* C1: for N >= 1 channels of one length, separate_channels(merge_channels(
\* channels), N) returns the channels, in the same order with the same samples.
C1_SeparateInvertsMerge ==
    (/\ trace = <<"merge_channels", "separate_channels">>
     /\ Len(channels) >= 1
     /\ num_channels = Len(channels)
     /\ EqualLengths(channels))
    => separated = channels

C1_Witness ==
    /\ trace = <<"merge_channels", "separate_channels">>
    /\ Len(channels) = 3
    /\ num_channels = 3
    /\ \A c \in 1..3 : Len(channels[c]) = 2
    /\ channels[1][1] # channels[2][1]
    /\ channels[1][1] # channels[1][2]
    /\ separated = channels

\* C2: decoding the header bytes followed by the payload bytes that
\* encode_wave_data returned gives a WaveHeader whose 13 fields equal those of
\* create_headers(len(samples)).
C2_HeaderRoundTrip ==
    (/\ trace = <<"encode_wave_data", "decode_wave_data">>
     /\ file_bytes = headers_bytes \o data_bytes)
    => /\ raised = "none"
       /\ \A i \in 1..Len(WaveHeaderFields) :
            headers[WaveHeaderFields[i]]
                = create_headers(Len(samples))[WaveHeaderFields[i]]

C2_Witness ==
    /\ trace = <<"encode_wave_data", "decode_wave_data">>
    /\ file_bytes = headers_bytes \o data_bytes
    /\ Len(samples) = 2
    /\ raised = "none"
    /\ headers.riff = RIFF
    /\ headers.file_size = 40
    /\ headers.sampling_freq = 44100
    /\ headers.data_size = 4

\* C3: for samples in [-1, 1], convert_to_samples(convert_to_bytes(s)) has the
\* length of s and each decoded sample is less than 1/32767 away from the
\* original at the same index.
C3_SampleRoundTrip ==
    (/\ Len(trace) >= 1
     /\ trace[1] = "convert_to_bytes"
     /\ AllInUnit(samples))
    => /\ raised = "none"
       /\ Len(trace) = 2 =>
            /\ Len(out_samples) = Len(samples)
            /\ \A i \in 1..Len(samples) : WithinOneStep(samples[i], out_samples[i])

C3_Witness ==
    /\ trace = <<"convert_to_bytes", "convert_to_samples">>
    /\ Len(samples) = 2
    /\ samples[1].num = -1 /\ samples[1].den = 2
    /\ samples[2].num = samples[2].den
    /\ out_samples[1].num = -16383
    /\ out_samples[2].num = 32767

\* C4: convert_to_bytes on n samples in [-1, 1] returns 2*n bytes whose k-th
\* 2-byte chunk is the little-endian signed 16-bit encoding of the k-th sample
\* times 32767 truncated toward zero.
C4_LittleEndianTruncated ==
    (trace = <<"convert_to_bytes">> /\ AllInUnit(samples))
    => /\ raised = "none"
       /\ Len(data_bytes) = 2 * Len(samples)
       /\ \A k \in 1..Len(samples) :
            Chunk(data_bytes, k)
                = LittleEndian(
                    TruncDiv(samples[k].num * 32767, samples[k].den) % 65536, 2)

C6_OddLengthRaises ==
    /\ (trace = <<"convert_to_samples">> /\ Len(data_bytes) % 2 # 0)
        => raised = "struct.error" /\ out_samples = <<>>
    /\ (/\ trace = <<"encode_wave_data", "decode_wave_data">>
        /\ Len(file_bytes) >= 44
        /\ (Len(file_bytes) - 44) % 2 # 0)
        => raised = "struct.error" /\ out_samples = <<>> /\ headers = NoHeader

C6_Witness ==
    /\ trace = <<"encode_wave_data", "decode_wave_data">>
    /\ Len(file_bytes) = 47
    /\ raised = "struct.error"
    /\ out_samples = <<>>

\* C7: in every header of create_headers, block_align = num_channels *
\* bytes per sample (sample_bits / 8) and bytes_per_second = sampling_freq *
\* block_align.
C7_BlockAlignPerFrame ==
    trace = <<"create_headers">>
    => /\ headers.block_align = headers.num_channels * (headers.sample_bits \div 8)
       /\ headers.bytes_per_second = headers.sampling_freq * headers.block_align

\* C8: create_headers(n) has data_size = 2 * n and file_size = 44 - 8 +
\* data_size; the packed header of encode_wave_data is 44 bytes long and its
\* data_size field (offset 40) equals the length of the returned payload.
C8_HeaderSizes ==
    /\ trace = <<"create_headers">>
        => /\ headers.data_size = num_samples * 2
           /\ headers.file_size = 44 - 8 + headers.data_size
    /\ (trace = <<"encode_wave_data">> /\ raised = "none")
        => /\ Len(headers_bytes) = 44
           /\ FromLittleEndian(SubSeq(headers_bytes, 41, 44)) = Len(data_bytes)

C8_Witness ==
    /\ trace = <<"encode_wave_data">>
    /\ raised = "none"
    /\ Len(samples) = 2
    /\ Len(headers_bytes) = 44
    /\ Len(data_bytes) = 4
    /\ SubSeq(headers_bytes, 41, 44) = <<4, 0, 0, 0>>

\* C9: for N channels whose shortest has length m, merge_channels returns
\* N * m elements, the one at position i being sample i div N of channel
\* i mod N; nothing of a longer channel beyond m - 1 is kept, and
\* merge_channels([]) is empty.
C9_MergeInterleaves ==
    (Len(trace) >= 1 /\ trace[1] = "merge_channels")
    => IF channels = <<>> THEN merged = <<>>
       ELSE LET N == Len(channels)
                m == Min({Len(channels[c]) : c \in 1..N})
            IN /\ Len(merged) = N * m
               /\ \A i \in 0..(N * m - 1) :
                    merged[i + 1] = channels[(i % N) + 1][(i \div N) + 1]

C9_Witness ==
    /\ trace = <<"merge_channels">>
    /\ Len(channels) = 3
    /\ Len(channels[1]) = 2 /\ Len(channels[2]) = 1 /\ Len(channels[3]) = 2
    /\ channels[1][1] # channels[2][1]
    /\ Len(merged) = 3
    /\ merged = <<channels[1][1], channels[2][1], channels[3][1]>>

\* C10 as stated: when the buffer length L is no multiple of N, the trailing
\* L mod N samples are in no returned channel and all N channels have length
\* L div N.
C10_RemainderDropped ==
    (trace = <<"separate_channels">> /\ Len(merged) % num_channels # 0)
    => \A c \in 1..num_channels :
         /\ Len(separated[c]) = Len(merged) \div num_channels
         /\ \A j \in 1..Len(separated[c]) :
              separated[c][j] = merged[(j - 1) * num_channels + c]

\* C10 amended: when L is no multiple of N nothing is dropped: channel c
\* (0-based) holds the buffer elements at c, c + N, c + 2N, ... below L, so the
\* first L mod N channels have length L div N + 1 (their last element is one of
\* the trailing samples) and the others L div N.
C10_RemainderKept ==
    (trace = <<"separate_channels">> /\ Len(merged) % num_channels # 0)
    => /\ Len(separated) = num_channels
       /\ \A c \in 1..num_channels :
            /\ Len(separated[c])
                = (Len(merged) \div num_channels)
                    + (IF c <= Len(merged) % num_channels THEN 1 ELSE 0)
            /\ \A j \in 1..Len(separated[c]) :
                 separated[c][j] = merged[(j - 1) * num_channels + c]

C10_Witness ==
    /\ trace = <<"separate_channels">>
    /\ Len(merged) = 3
    /\ num_channels = 2
    /\ merged[1] # merged[3]
    /\ separated = << <<merged[1], merged[3]>>, <<merged[2]>> >>

====
